---- MODULE Spec2Model ----
(***************************************************************************)
(* Master node of the judging cluster: the worker registry, the job map,   *)
(* the per-stream message pump (register_stream), the two result handlers  *)
(* (handle_compile_result, handle_batch_result) and submit_job.            *)
(*                                                                         *)
(* Every tokio task is a process of the model: one pump per worker stream, *)
(* one submit_job per HTTP request.  A task is cut into steps at the       *)
(* points where it touches the shared maps (DashMap operations) or awaits. *)
(***************************************************************************)
EXTENDS Naturals, Integers, Sequences, FiniteSets, TLC

\* ------------------------------------------------------------------ bounds
\* Number of worker streams that connect during a run.
NumStreams == 2
\* Number of CompileResult / BatchExecutionResult messages a faulty worker
\* may send (duplicates, late or unsolicited results).
MaxMsgs == 3
\* Depth of a worker's command channel, mpsc::channel(32).
SinkDepth == 32

StreamIds == 1..NumStreams
WorkerIds == {"w1", "w2"}
JobIds == {"j1"}

\* ------------------------------------------------------------ value pools
\* Language names are sequences of characters, so that to_lowercase is a
\* computation on them.
python == <<"p", "y", "t", "h", "o", "n">>
Python == <<"P", "y", "t", "h", "o", "n">>
python3 == <<"p", "y", "t", "h", "o", "n", "3">>
javascript == <<"j", "a", "v", "a", "s", "c", "r", "i", "p", "t">>
js == <<"j", "s">>
JS == <<"J", "S">>
node == <<"n", "o", "d", "e">>
Node == <<"N", "o", "d", "e">>
ruby == <<"r", "u", "b", "y">>
RUBY == <<"R", "U", "B", "Y">>
cpp == <<"c", "p", "p">>
java == <<"j", "a", "v", "a">>
py == <<"p", "y">>
empty_language == <<>>

\* A submission: SubmitRequest reduced to the fields the pipeline reads.
Request(lang, tests) == [language |-> lang, test_cases |-> tests]

\* The submissions of the general specification.
Requests ==
    { Request(Python, <<"t1">>), Request(cpp, <<"t1", "t2">>) }

\* The submissions used to exercise the language classification and the
\* handling of empty fields: every spelling with one test case, and an
\* interpreted and a compiled language with no test case.
AllRequests ==
    { Request(l, <<"t1">>) :
        l \in { python, Python, python3, javascript, js, JS, node, Node, ruby,
                RUBY, cpp, java, py, empty_language } }
    \cup { Request(python, <<>>), Request(cpp, <<>>) }

\* Register payloads (cpu_cores, total_ram_mb, tags).
SmallWorker == [cpu_cores |-> 2, total_ram_mb |-> 1024, tags |-> {"can_compile"}]
LargeWorker == [cpu_cores |-> 4, total_ram_mb |-> 2048, tags |-> {}]
Capacities == { SmallWorker, LargeWorker }

\* Heartbeat payloads (cpu_load_percent, ram_usage_mb, active_tasks).
LightLoad == [cpu_load_percent |-> 10, ram_usage_mb |-> 100, active_tasks |-> 1]
HeavyLoad == [cpu_load_percent |-> 60, ram_usage_mb |-> 200, active_tasks |-> 2]
Metrics == { LightLoad, HeavyLoad }

\* What a BatchExecutionResult may carry: per-test results with no system
\* error, or a system error and no results.
BatchOutcomes ==
    { [results |-> <<"t1">>, system_error |-> ""],
      [results |-> <<"t1", "t2">>, system_error |-> ""],
      [results |-> <<>>, system_error |-> "Failed to create container"] }

\* ------------------------------------------------------------------ state
VARIABLES
    workers,      \* AppState.workers : worker id -> WorkerInfo
    jobs,         \* AppState.jobs    : job id -> JobContext
    status,       \* per stream: "idle", "open", "broken", "closed"
    worker_id,    \* per stream: the pump's local worker_id (Option<String>)
    hsend,        \* per stream: pending dispatch of handle_compile_result
    sink,         \* per stream: queued MasterCommands (the mpsc channel)
    wtasks,       \* per stream: commands the worker has received
    spc,          \* per job id: position of its submit_job task
    sreq,         \* per job id: the request of its submit_job task
    ssel,         \* per job id: the worker id submit_job selected
    resp,         \* per job id: HTTP status answered by submit_job
    signals,      \* per job id: number of sends on the responder
    completions,  \* per job id: number of transitions into Completed
    first_cmd,    \* per job id: type of the first command put on a sink
    delivered,    \* number of faulty-worker result messages so far
    reg_log,      \* per worker id: the Register behind its registry entry
    jlock,        \* per job id: the streams whose pump holds the job's guard
    call,         \* the function call made (scheduler.rs, docker.rs)
    ret           \* what that call returned

vars == << workers, jobs, status, worker_id, hsend, sink, wtasks, spc, sreq,
           ssel, resp, signals, completions, first_cmd, delivered, reg_log,
           jlock, call, ret >>

streamVars == << status, worker_id, hsend >>
submitVars == << spc, sreq, ssel, resp >>
historyVars == << signals, completions >>
callVars == << call, ret >>
masterVars == << workers, jobs, status, worker_id, hsend, sink, wtasks, spc,
                 sreq, ssel, resp, signals, completions, first_cmd, delivered,
                 reg_log, jlock >>

None == "None"

\* No function of scheduler.rs or docker.rs has been called.
NoCall == [fn |-> "none"]

\* ------------------------------------------------------------- JobState
Compiling == [phase |-> "Compiling", pending_batches |-> 0]
Executing(n) == [phase |-> "Executing", pending_batches |-> n]
Completed == [phase |-> "Completed", pending_batches |-> 0]

\* Map insert / remove (DashMap::insert, DashMap::remove).
Insert(map, k, v) ==
    [x \in (DOMAIN map) \cup {k} |-> IF x = k THEN v ELSE map[x]]
Remove(map, k) == [x \in (DOMAIN map) \ {k} |-> map[x]]

EmptyMap == [x \in {} |-> 0]

Init ==
    /\ workers = EmptyMap
    /\ jobs = EmptyMap
    /\ status = [s \in StreamIds |-> "idle"]
    /\ worker_id = [s \in StreamIds |-> None]
    /\ hsend = [s \in StreamIds |-> <<>>]
    /\ sink = [s \in StreamIds |-> <<>>]
    /\ wtasks = [s \in StreamIds |-> {}]
    /\ spc = [j \in JobIds |-> "start"]
    /\ sreq = [j \in JobIds |-> Request(<<>>, <<>>)]
    /\ ssel = [j \in JobIds |-> None]
    /\ resp = [j \in JobIds |-> 0]
    /\ signals = [j \in JobIds |-> 0]
    /\ completions = [j \in JobIds |-> 0]
    /\ first_cmd = [j \in JobIds |-> None]
    /\ delivered = 0
    /\ reg_log = EmptyMap
    /\ jlock = [j \in JobIds |-> {}]
    /\ call = NoCall
    /\ ret = None

\* ---------------------------------------------------------------- commands
\* MasterCommand::Compile(CompileTask).
CompileCmd(j, lang) ==
    [language |-> lang, type |-> "Compile", job_id |-> j,
     payload |-> <<"source">>, inputs |-> <<>>]

\* MasterCommand::Execute(ExecuteBatchTask), batch_id "batch_1".
ExecuteCmd(j, lang, payload, tests) ==
    [language |-> lang, type |-> "Execute", job_id |-> j,
     payload |-> payload, inputs |-> tests]

\* `worker.sender.send(Ok(cmd)).await` after `state.workers.get(&w)`:
\* nothing is sent when w has no entry; the send fails when the receiver of
\* the entry's channel is gone; it waits while the channel is full.
Receiving(w) == w \in DOMAIN workers /\ status[workers[w].sender] = "open"

SendReady(w) ==
    Receiving(w) => Len(sink[workers[w].sender]) < SinkDepth

\* The send, had the master handed the command of a worker that is gone to
\* another worker that still receives.
SendTo_Reschedules(w, cmd) ==
    /\ SendReady(w)
    /\ IF Receiving(w)
       THEN /\ sink' = [sink EXCEPT ![workers[w].sender] = Append(@, cmd)]
            /\ first_cmd' = [first_cmd EXCEPT ![cmd.job_id] =
                                IF @ = None THEN cmd.type ELSE @]
       ELSE IF \E v \in DOMAIN workers : Receiving(v)
            THEN \E v \in DOMAIN workers :
                    /\ Receiving(v)
                    /\ sink' = [sink EXCEPT ![workers[v].sender] = Append(@, cmd)]
                    /\ first_cmd' = [first_cmd EXCEPT ![cmd.job_id] =
                                        IF @ = None THEN cmd.type ELSE @]
            ELSE UNCHANGED << sink, first_cmd >>

SendTo(w, cmd) ==
    /\ SendReady(w)
    /\ IF Receiving(w)
       THEN /\ sink' = [sink EXCEPT ![workers[w].sender] = Append(@, cmd)]
            /\ first_cmd' = [first_cmd EXCEPT ![cmd.job_id] =
                                IF @ = None THEN cmd.type ELSE @]
       ELSE UNCHANGED << sink, first_cmd >>

\* `state.workers.iter().min_by(cpu_load_percent)`: the candidates min_by can
\* return.  The iteration order of the map is arbitrary, so any worker of
\* minimal load can be the first minimum.
LeastLoaded ==
    { w \in DOMAIN workers :
        \A v \in DOMAIN workers :
            workers[w].cpu_load_percent <= workers[v].cpu_load_percent }

\* -------------------------------------------------------- register_stream
\* A worker opens a stream: the channel is created and the pump is spawned.
Connect(s) ==
    /\ status[s] = "idle"
    /\ status' = [status EXCEPT ![s] = "open"]
    /\ UNCHANGED << workers, jobs, worker_id, hsend, sink, wtasks, submitVars,
                    historyVars, first_cmd, delivered, reg_log, jlock, callVars >>

\* The pump is at `stream.next().await` and the connection is up.
PumpReady(s) == status[s] = "open" /\ hsend[s] = <<>>

\* Payload::Register, had the registry kept the entry an id already has.
HandleRegister_KeepsEntry(s, reg) ==
    /\ PumpReady(s)
    /\ worker_id' = [worker_id EXCEPT ![s] = reg.worker_id]
    /\ workers' = IF reg.worker_id \in DOMAIN workers THEN workers
                  ELSE Insert(workers, reg.worker_id,
                              [cpu_cores |-> reg.cpu_cores,
                               total_ram_mb |-> reg.total_ram_mb,
                               tags |-> reg.tags,
                               cpu_load_percent |-> 0,
                               ram_usage_mb |-> 0,
                               active_tasks |-> 0,
                               sender |-> s])
    /\ UNCHANGED << jobs, status, hsend, sink, submitVars, historyVars,
                    first_cmd, jlock >>

\* Payload::Register, had it carried the metrics of a replaced entry over.
HandleRegister_KeepsMetrics(s, reg) ==
    /\ PumpReady(s)
    /\ worker_id' = [worker_id EXCEPT ![s] = reg.worker_id]
    /\ workers' = Insert(workers, reg.worker_id,
            [cpu_cores |-> reg.cpu_cores,
             total_ram_mb |-> reg.total_ram_mb,
             tags |-> reg.tags,
             cpu_load_percent |-> IF reg.worker_id \in DOMAIN workers
                 THEN workers[reg.worker_id].cpu_load_percent ELSE 0,
             ram_usage_mb |-> IF reg.worker_id \in DOMAIN workers
                 THEN workers[reg.worker_id].ram_usage_mb ELSE 0,
             active_tasks |-> IF reg.worker_id \in DOMAIN workers
                 THEN workers[reg.worker_id].active_tasks ELSE 0,
             sender |-> s])
    /\ UNCHANGED << jobs, status, hsend, sink, submitVars, historyVars,
                    first_cmd, jlock >>

\* Payload::Register
HandleRegister(s, reg) ==
    /\ PumpReady(s)
    /\ worker_id' = [worker_id EXCEPT ![s] = reg.worker_id]
    /\ workers' = Insert(workers, reg.worker_id,
                         [cpu_cores |-> reg.cpu_cores,
                          total_ram_mb |-> reg.total_ram_mb,
                          tags |-> reg.tags,
                          cpu_load_percent |-> 0,
                          ram_usage_mb |-> 0,
                          active_tasks |-> 0,
                          sender |-> s])
    /\ UNCHANGED << jobs, status, hsend, sink, submitVars, historyVars,
                    first_cmd, jlock >>

\* The Heartbeat arm, had it written the reported metrics into every entry
\* of the registry.
HeartbeatUpdate_AllEntries(map, hb) ==
    IF hb.worker_id \in DOMAIN map
    THEN [w \in DOMAIN map |->
             [map[w] EXCEPT !.cpu_load_percent = hb.cpu_load_percent,
                            !.ram_usage_mb = hb.ram_usage_mb,
                            !.active_tasks = hb.active_tasks]]
    ELSE map

\* The Heartbeat arm, had it added the reported tasks to the entry's count.
HeartbeatUpdate_AddsTasks(map, hb) ==
    IF hb.worker_id \in DOMAIN map
    THEN [map EXCEPT ![hb.worker_id] =
             [@ EXCEPT !.cpu_load_percent = hb.cpu_load_percent,
                       !.ram_usage_mb = hb.ram_usage_mb,
                       !.active_tasks = @ + hb.active_tasks]]
    ELSE map

\* `if let Some(mut worker) = state.workers.get_mut(&hb.worker_id)`: the
\* registry after a Heartbeat, as a function of the registry before it.
HeartbeatUpdate(map, hb) ==
    IF hb.worker_id \in DOMAIN map
    THEN [map EXCEPT ![hb.worker_id] =
             [@ EXCEPT !.cpu_load_percent = hb.cpu_load_percent,
                       !.ram_usage_mb = hb.ram_usage_mb,
                       !.active_tasks = hb.active_tasks]]
    ELSE map

\* Payload::Heartbeat
HandleHeartbeat(s, hb) ==
    /\ PumpReady(s)
    /\ workers' = HeartbeatUpdate(workers, hb)
    /\ UNCHANGED << jobs, streamVars, sink, submitVars, historyVars,
                    first_cmd, jlock >>

\* The connection of stream s drops: the receiver of its command channel is
\* dropped with whatever it held, and the pump's next item ends its loop.
Disconnect(s) ==
    /\ status[s] = "open"
    /\ status' = [status EXCEPT ![s] = "broken"]
    /\ sink' = [sink EXCEPT ![s] = <<>>]
    /\ UNCHANGED << workers, jobs, worker_id, hsend, wtasks, submitVars,
                    historyVars, first_cmd, delivered, reg_log, jlock, callVars >>

\* The pump leaves its loop: "Worker disconnected - clean up".
StreamEnd(s) ==
    /\ status[s] = "broken"
    /\ hsend[s] = <<>>
    /\ status' = [status EXCEPT ![s] = "closed"]
    /\ workers' = IF worker_id[s] # None THEN Remove(workers, worker_id[s])
                  ELSE workers
    /\ reg_log' = IF worker_id[s] # None THEN Remove(reg_log, worker_id[s])
                  ELSE reg_log
    /\ UNCHANGED << jobs, worker_id, hsend, sink, wtasks, submitVars,
                    historyVars, first_cmd, delivered, jlock, callVars >>

\* The response stream (ReceiverStream) takes the next command off the
\* channel and the worker receives it; `keep` tells whether the worker goes
\* on to work on it or drops it.
Drain(s, keep) ==
    /\ status[s] = "open"
    /\ sink[s] # <<>>
    /\ sink' = [sink EXCEPT ![s] = Tail(@)]
    /\ wtasks' = IF keep THEN [wtasks EXCEPT ![s] = @ \cup {Head(sink[s])}]
                 ELSE wtasks
    /\ UNCHANGED << workers, jobs, streamVars, submitVars, historyVars,
                    first_cmd, delivered, reg_log, jlock, callVars >>

\* Number of transitions into Completed, as a function of one job update.
Entered(j, old, new) ==
    [completions EXCEPT ![j] =
        IF old.phase # "Completed" /\ new.phase = "Completed"
        THEN @ + 1 ELSE @]

\* ------------------------------------------------ handle_compile_result
\* The block that holds the job entry (get_mut) and the worker selection
\* that follows it.
\* Variant: the handler adds the dispatched batch to the counter instead of
\* setting it.
CompileUpdate_AddsBatch(job, result) ==
    IF result.success
    THEN [job EXCEPT !.compiler_output = <<result.compiler_output>>,
                     !.binary = <<result.binary_payload>>,
                     !.state = Executing(job.state.pending_batches + 1)]
    ELSE [job EXCEPT !.compiler_output = <<result.compiler_output>>,
                     !.state = Completed]

\* Variant: the block stores the output and the binary and leaves the phase
\* to be set after the ExecuteBatch has been sent.
CompileUpdate_PhaseLater(job, result) ==
    IF result.success
    THEN [job EXCEPT !.compiler_output = <<result.compiler_output>>,
                     !.binary = <<result.binary_payload>>]
    ELSE [job EXCEPT !.compiler_output = <<result.compiler_output>>,
                     !.state = Completed]

CompileUpdate(job, result) ==
    IF result.success
    THEN [job EXCEPT !.compiler_output = <<result.compiler_output>>,
                     !.binary = <<result.binary_payload>>,
                     !.state = Executing(1)]
    ELSE [job EXCEPT !.compiler_output = <<result.compiler_output>>,
                     !.state = Completed]

\* The holder of the job's guard after the block, had the `get_mut` guard
\* lived until the end of the function.
GuardAfterUpdate_Held(s, sending) == IF sending THEN {s} ELSE {}

\* The holder of the job's guard once `let dispatch_info = { .. }` is left:
\* the `get_mut` guard is a local of that block.
GuardAfterUpdate(s, sending) == {}

\* `state.jobs.get_mut` returns once no other task holds the entry's guard.
JobFree(j) == j \in JobIds => jlock[j] = {}

HandleCompileResult(s, result) ==
    /\ PumpReady(s)
    /\ JobFree(result.job_id)
    /\ LET j == result.job_id IN
       IF j \in DOMAIN jobs
       THEN LET new == CompileUpdate(jobs[j], result)
                sending == result.success /\ DOMAIN workers # {} IN
            /\ jobs' = [jobs EXCEPT ![j] = new]
            /\ completions' = Entered(j, jobs[j].state, new.state)
            /\ jlock' = [jlock EXCEPT ![j] = GuardAfterUpdate(s, sending)]
            /\ IF sending
               THEN \E w \in LeastLoaded :
                        hsend' = [hsend EXCEPT ![s] =
                            << [cmd |-> ExecuteCmd(j, new.language,
                                                   <<result.binary_payload>>,
                                                   new.test_cases),
                                to |-> w] >>]
               ELSE UNCHANGED hsend
       ELSE UNCHANGED << jobs, completions, hsend, jlock >>
    /\ UNCHANGED << workers, status, worker_id, sink, submitVars, signals,
                    first_cmd >>

\* `if let Some(worker) = state.workers.get(&worker_id) { send.await }`
HandleCompileSend(s) ==
    /\ hsend[s] # <<>>
    /\ SendTo(hsend[s][1].to, hsend[s][1].cmd)
    /\ hsend' = [hsend EXCEPT ![s] = <<>>]
    /\ jlock' = [j \in JobIds |-> jlock[j] \ {s}]
    /\ UNCHANGED << workers, jobs, status, worker_id, wtasks, submitVars,
                    historyVars, delivered, reg_log, callVars >>

\* -------------------------------------------------- handle_batch_result
\* Variant: the counter is decremented but the zero test is missing, so
\* the job is never moved to Completed.
BatchUpdate_NeverCompletes(job, result) ==
    LET appended == [job EXCEPT !.results = @ \o result.results] IN
    IF job.state.phase = "Executing"
    THEN LET n == IF job.state.pending_batches = 0 THEN 0
                  ELSE job.state.pending_batches - 1 IN
         [appended EXCEPT !.state = Executing(n)]
    ELSE appended

\* Variant: the job is moved to Completed by the result that finds the
\* counter at zero, not by the one that brings it there.
BatchUpdate_LateCompletion(job, result) ==
    LET appended == [job EXCEPT !.results = @ \o result.results] IN
    IF job.state.phase = "Executing"
    THEN IF job.state.pending_batches = 0
         THEN [appended EXCEPT !.state = Completed, !.responder = FALSE]
         ELSE [appended EXCEPT !.state = Executing(job.state.pending_batches - 1)]
    ELSE appended

BatchUpdate(job, result) ==
    LET appended == [job EXCEPT !.results = @ \o result.results] IN
    IF job.state.phase = "Executing"
    THEN LET n == IF job.state.pending_batches = 0 THEN 0
                  ELSE job.state.pending_batches - 1 IN
         IF n = 0
         THEN [appended EXCEPT !.state = Completed, !.responder = FALSE]
         ELSE [appended EXCEPT !.state = Executing(n)]
    ELSE appended

HandleBatchResult(s, result) ==
    /\ PumpReady(s)
    /\ JobFree(result.job_id)
    /\ LET j == result.job_id IN
       IF j \in DOMAIN jobs
       THEN LET new == BatchUpdate(jobs[j], result) IN
            /\ jobs' = [jobs EXCEPT ![j] = new]
            /\ completions' = Entered(j, jobs[j].state, new.state)
            /\ signals' = [signals EXCEPT ![j] =
                    IF jobs[j].responder /\ ~new.responder THEN @ + 1 ELSE @]
       ELSE UNCHANGED << jobs, completions, signals >>
    /\ UNCHANGED << workers, streamVars, sink, submitVars, first_cmd,
                    jlock >>

\* ----------------------------------------------------------- submit_job
\* char::to_lowercase on the characters that occur in the language pool.
UpperToLower ==
    [c \in {"A", "B", "C", "D", "E", "H", "I", "J", "N", "O", "P", "R", "S",
            "T", "U", "V", "Y"} |->
        CASE c = "A" -> "a" [] c = "B" -> "b" [] c = "C" -> "c"
          [] c = "D" -> "d" [] c = "E" -> "e" [] c = "H" -> "h"
          [] c = "I" -> "i" [] c = "J" -> "j" [] c = "N" -> "n"
          [] c = "O" -> "o" [] c = "P" -> "p" [] c = "R" -> "r"
          [] c = "S" -> "s" [] c = "T" -> "t" [] c = "U" -> "u"
          [] c = "V" -> "v" [] c = "Y" -> "y"]

to_lowercase(str) ==
    [i \in 1..Len(str) |->
        IF str[i] \in DOMAIN UpperToLower THEN UpperToLower[str[i]]
        ELSE str[i]]

\* Variant: the language is matched as given, without to_lowercase.
is_interpreted_CaseSensitive(lang) ==
    lang \in {python, python3, javascript, js, node, ruby}

\* matches!(req.language.to_lowercase().as_str(), "python" | ... | "ruby")
is_interpreted(lang) ==
    to_lowercase(lang) \in {python, python3, javascript, js, node, ruby}

\* `let initial_state = if is_interpreted { Executing{1} } else { Compiling }`
initial_state(lang) ==
    IF is_interpreted(lang) THEN Executing(1) ELSE Compiling

\* `let job = JobContext { ... }`
NewJob(req) ==
    [language |-> req.language,
     test_cases |-> req.test_cases,
     results |-> <<>>,
     compiler_output |-> <<>>,
     binary |-> <<>>,
     state |-> initial_state(req.language),
     responder |-> TRUE,
     total_test_cases |-> Len(req.test_cases)]

\* The command submit_job builds for its job.
FirstCommand(j, req) ==
    IF is_interpreted(req.language)
    THEN ExecuteCmd(j, req.language, <<"source">>, req.test_cases)
    ELSE CompileCmd(j, req.language)

NoRequest == Request(<<>>, <<>>)

\* The request arrives; `if state.workers.is_empty() { return 503 }`.
SubmitCheck(j, req) ==
    /\ spc[j] = "start"
    /\ IF DOMAIN workers = {}
       THEN /\ spc' = [spc EXCEPT ![j] = "done"]
            /\ resp' = [resp EXCEPT ![j] = 503]
            /\ UNCHANGED sreq
       ELSE /\ spc' = [spc EXCEPT ![j] = "checked"]
            /\ sreq' = [sreq EXCEPT ![j] = req]
            /\ UNCHANGED resp
    /\ UNCHANGED << workers, jobs, streamVars, sink, wtasks, ssel,
                    historyVars, first_cmd, delivered, reg_log, jlock, callVars >>

\* `state.jobs.insert(job_id, job)`, then the selection of the least loaded
\* worker; `let Some(worker_id) = worker_id else { return 503 }`.
SubmitInsert(j) ==
    /\ spc[j] = "checked"
    /\ jobs' = Insert(jobs, j, NewJob(sreq[j]))
    /\ IF DOMAIN workers = {}
       THEN /\ spc' = [spc EXCEPT ![j] = "done"]
            /\ resp' = [resp EXCEPT ![j] = 503]
            /\ sreq' = [sreq EXCEPT ![j] = NoRequest]
            /\ UNCHANGED ssel
       ELSE /\ \E w \in LeastLoaded : ssel' = [ssel EXCEPT ![j] = w]
            /\ spc' = [spc EXCEPT ![j] = "selected"]
            /\ UNCHANGED << resp, sreq >>
    /\ UNCHANGED << workers, streamVars, sink, wtasks, historyVars,
                    first_cmd, delivered, reg_log, jlock, callVars >>

\* "Dispatch to worker" and the 202 answer.
SubmitSend(j) ==
    /\ spc[j] = "selected"
    /\ SendTo(ssel[j], FirstCommand(j, sreq[j]))
    /\ spc' = [spc EXCEPT ![j] = "done"]
    /\ resp' = [resp EXCEPT ![j] = 202]
    /\ sreq' = [sreq EXCEPT ![j] = NoRequest]
    /\ ssel' = [ssel EXCEPT ![j] = None]
    /\ UNCHANGED << workers, jobs, streamVars, wtasks, historyVars,
                    delivered, reg_log, jlock, callVars >>

\* --------------------------------------------------------- get_job_status
\* GET /status/{job_id}: the StatusResponse read off the job map.  An
\* Option is the empty sequence (None) or a sequence of one element.
get_job_status(map, job_id) ==
    IF job_id \in DOMAIN map
    THEN [results |-> map[job_id].results,
          compiler_output |-> map[job_id].compiler_output,
          state |-> IF map[job_id].state.phase = "Compiling" THEN "compiling"
                    ELSE IF /\ map[job_id].state.phase = "Executing"
                            /\ map[job_id].state.pending_batches > 0
                         THEN "executing"
                    ELSE "completed",
          code |-> 200,
          error |-> << >>]
    ELSE [results |-> << >>,
          compiler_output |-> << >>,
          state |-> "not_found",
          code |-> 404,
          error |-> << "Job not found" >>]

\* ------------------------------------------------------------ the workers
\* Job ids that have been handed to a worker: a worker can only name a job
\* whose (random) id it was sent.
Known == { j \in JobIds : first_cmd[j] # None }

RegisterMsgs(ids, caps) ==
    { [cpu_cores |-> c.cpu_cores, total_ram_mb |-> c.total_ram_mb,
       tags |-> c.tags, worker_id |-> w] :
        w \in ids, c \in caps }

HeartbeatMsgs(ids, metrics) ==
    { [cpu_load_percent |-> m.cpu_load_percent, ram_usage_mb |-> m.ram_usage_mb,
       active_tasks |-> m.active_tasks, worker_id |-> w] :
        w \in ids, m \in metrics }

CompileResultMsgs ==
    { [job_id |-> j, success |-> TRUE, compiler_output |-> "ok",
       binary_payload |-> "bin"] : j \in Known }
    \cup
    { [job_id |-> j, success |-> FALSE, compiler_output |-> "error",
       binary_payload |-> ""] : j \in Known }

BatchResultMsgs ==
    { [results |-> o.results, system_error |-> o.system_error, job_id |-> j] :
        j \in Known, o \in BatchOutcomes }

\* Whether a registry entry carries metrics other than (0, 0, 0).
Loaded(w) ==
    /\ w \in DOMAIN workers
    /\ << workers[w].cpu_load_percent, workers[w].ram_usage_mb,
          workers[w].active_tasks >> # << 0, 0, 0 >>

\* A worker sends Register / Heartbeat and the pump handles it.  reg_log
\* keeps, for every id in the registry, the latest Register sent for it, the
\* stream that sent it, whether it replaced an entry that carried metrics,
\* and whether a Heartbeat for the id has been handled since.
WorkerRegister(s, reg) ==
    /\ HandleRegister(s, reg)
    /\ reg_log' = Insert(reg_log, reg.worker_id,
                         [reg |-> reg, stream |-> s,
                          reset |-> Loaded(reg.worker_id),
                          heartbeat |-> FALSE])
    /\ UNCHANGED << wtasks, delivered, callVars >>

WorkerHeartbeat(s, hb) ==
    /\ HandleHeartbeat(s, hb)
    /\ reg_log' = IF hb.worker_id \in DOMAIN reg_log
                  THEN [reg_log EXCEPT ![hb.worker_id].heartbeat = TRUE]
                  ELSE reg_log
    /\ UNCHANGED << wtasks, delivered, callVars >>

\* A worker sends a result for a job it knows of, solicited or not, possibly
\* again; the pump handles it.
WorkerCompileResult(s, result) ==
    /\ delivered < MaxMsgs
    /\ delivered' = delivered + 1
    /\ HandleCompileResult(s, result)
    /\ UNCHANGED << wtasks, reg_log, callVars >>

WorkerBatchResult(s, result) ==
    /\ delivered < MaxMsgs
    /\ delivered' = delivered + 1
    /\ HandleBatchResult(s, result)
    /\ UNCHANGED << wtasks, reg_log, callVars >>

\* The job pipeline under faulty workers: results may be duplicated, late or
\* unsolicited, streams may drop at any moment.  The workers all use one id
\* (a worker reconnects under the id it had), so the selection has a single
\* candidate and heartbeats, which only move the load, are left out.
PipelineWorkers == {"w1"}

Next ==
    \/ \E s \in StreamIds : Connect(s)
    \/ \E s \in StreamIds, reg \in RegisterMsgs(PipelineWorkers, {SmallWorker}) :
            WorkerRegister(s, reg)
    \/ \E s \in StreamIds, r \in CompileResultMsgs : WorkerCompileResult(s, r)
    \/ \E s \in StreamIds, r \in BatchResultMsgs : WorkerBatchResult(s, r)
    \/ \E s \in StreamIds : HandleCompileSend(s)
    \/ \E s \in StreamIds : Disconnect(s)
    \/ \E s \in StreamIds : StreamEnd(s)
    \/ \E s \in StreamIds : Drain(s, FALSE)
    \/ \E j \in JobIds, req \in Requests : SubmitCheck(j, req)
    \/ \E j \in JobIds : SubmitInsert(j)
    \/ \E j \in JobIds : SubmitSend(j)

Spec == Init /\ [][Next]_vars

\* --------------------------------------------------------- the registry
\* The registry alone: every Register and Heartbeat payload, any worker id on
\* any stream, streams dropping at any moment; no jobs.
NextRegistry ==
    \/ \E s \in StreamIds : Connect(s)
    \/ \E s \in StreamIds, reg \in RegisterMsgs(WorkerIds, Capacities) :
            WorkerRegister(s, reg)
    \/ \E s \in StreamIds, hb \in HeartbeatMsgs(WorkerIds, Metrics) :
            WorkerHeartbeat(s, hb)
    \/ \E s \in StreamIds : Disconnect(s)
    \/ \E s \in StreamIds : StreamEnd(s)

SpecRegistry == Init /\ [][NextRegistry]_vars

\* ------------------------------------------------------------ submission
\* submit_job over the whole language pool, with workers that register and
\* drop but send no results.
NextSubmit ==
    \/ \E s \in StreamIds : Connect(s)
    \/ \E s \in StreamIds, reg \in RegisterMsgs(PipelineWorkers, {SmallWorker}) :
            WorkerRegister(s, reg)
    \/ \E s \in StreamIds : Disconnect(s)
    \/ \E s \in StreamIds : StreamEnd(s)
    \/ \E s \in StreamIds : Drain(s, FALSE)
    \/ \E j \in JobIds, req \in AllRequests : SubmitCheck(j, req)
    \/ \E j \in JobIds : SubmitInsert(j)
    \/ \E j \in JobIds : SubmitSend(j)

SpecSubmit == Init /\ [][NextSubmit]_vars

\* ------------------------------------------------------- the worker agent
\* A worker that follows the protocol: Register first, under one id, then
\* heartbeats for that id, and one result per command it received.
AgentRegister(s, reg) ==
    /\ worker_id[s] = None
    /\ WorkerRegister(s, reg)

AgentHeartbeat(s, hb) ==
    /\ worker_id[s] = hb.worker_id
    /\ WorkerHeartbeat(s, hb)

\* The result the agent returns for a command: the compiler's outcome for a
\* CompileTask, one result per test case for an ExecuteBatchTask.
AgentCompileResult(c, ok) ==
    [job_id |-> c.job_id, success |-> ok,
     compiler_output |-> IF ok THEN "ok" ELSE "error",
     binary_payload |-> IF ok THEN "bin" ELSE ""]

AgentBatchResult(c) ==
    [results |-> c.inputs, system_error |-> "", job_id |-> c.job_id]

AgentReply(s, c) ==
    /\ c \in wtasks[s]
    /\ wtasks' = [wtasks EXCEPT ![s] = @ \ {c}]
    /\ UNCHANGED << delivered, reg_log, callVars >>
    /\ IF c.type = "Compile"
       THEN \E ok \in BOOLEAN : HandleCompileResult(s, AgentCompileResult(c, ok))
       ELSE HandleBatchResult(s, AgentBatchResult(c))

AgentStep(s) == \E c \in wtasks[s] : AgentReply(s, c)

NextLive ==
    \/ \E s \in StreamIds : Connect(s)
    \/ \E s \in StreamIds, reg \in RegisterMsgs(WorkerIds, {SmallWorker}) :
            AgentRegister(s, reg)
    \/ \E s \in StreamIds, hb \in HeartbeatMsgs(WorkerIds, {LightLoad}) :
            AgentHeartbeat(s, hb)
    \/ \E s \in StreamIds : Drain(s, TRUE)
    \/ \E s \in StreamIds : AgentStep(s)
    \/ \E s \in StreamIds : HandleCompileSend(s)
    \/ \E s \in StreamIds : Disconnect(s)
    \/ \E s \in StreamIds : StreamEnd(s)
    \/ \E j \in JobIds, req \in Requests : SubmitCheck(j, req)
    \/ \E j \in JobIds : SubmitInsert(j)
    \/ \E j \in JobIds : SubmitSend(j)

\* The pump of an open stream is a spawned task that is always scheduled, and
\* an agent that holds a command returns its result unless its stream drops.
SpecLive ==
    /\ Init
    /\ [][NextLive]_vars
    /\ \A s \in StreamIds : WF_vars(AgentStep(s))
    /\ \A s \in StreamIds : WF_vars(HandleCompileSend(s))

\* ------------------------------------------------------- a stuck worker
\* A worker that keeps answering but may stop taking commands off its
\* stream: it sends CompileResults for the job it knows of without limit,
\* and nothing obliges it to drain its command channel.
FloodCompileResult(s, result) ==
    /\ HandleCompileResult(s, result)
    /\ UNCHANGED << wtasks, delivered, reg_log, callVars >>

SinkStreams == {1}

\* The results the stuck worker reports: successful compilations, each of
\* which makes the master dispatch one more ExecuteBatch.
SinkResults == { r \in CompileResultMsgs : r.success }

NextSink ==
    \/ \E s \in SinkStreams : Connect(s)
    \/ \E s \in SinkStreams, reg \in RegisterMsgs(PipelineWorkers, {SmallWorker}) :
            WorkerRegister(s, reg)
    \/ \E s \in SinkStreams, r \in SinkResults : FloodCompileResult(s, r)
    \/ \E s \in SinkStreams : HandleCompileSend(s)
    \/ \E s \in SinkStreams : Drain(s, FALSE)
    \/ \E s \in SinkStreams : Disconnect(s)
    \/ \E s \in SinkStreams : StreamEnd(s)
    \/ \E j \in JobIds, req \in Requests : SubmitCheck(j, req)
    \/ \E j \in JobIds : SubmitInsert(j)
    \/ \E j \in JobIds : SubmitSend(j)

\* The pump of a stream and the task of a request are always scheduled: a
\* send that can go ahead does.
SpecSink ==
    /\ Init
    /\ [][NextSink]_vars
    /\ \A s \in StreamIds : WF_vars(HandleCompileSend(s))
    /\ \A j \in JobIds : WF_vars(SubmitSend(j))

\* ------------------------------------------------------------ scheduler.rs
\* A function is called with the arguments `c` and returns `r`.
Call(c, r) ==
    /\ call = NoCall
    /\ call' = c
    /\ ret' = r
    /\ UNCHANGED masterVars

\* `const BATCH_SIZE: usize = 20`
BATCH_SIZE == 20

\* Longest test-case list handed to create_batches.
MaxTests == 60

\* Test cases are named by their position; a list of distinct test cases and
\* a list that repeats one test case, of every length up to MaxTests.
TestLists ==
    { [i \in 1..n |-> i] : n \in 0..MaxTests }
    \cup { [i \in 1..n |-> 1] : n \in 0..MaxTests }

\* slice::chunks, had it been chunks_exact: a short remainder is left out.
RECURSIVE chunks_Exact(_, _)
chunks_Exact(list, size) ==
    IF Len(list) < size THEN << >>
    ELSE << SubSeq(list, 1, size) >>
             \o chunks_Exact(SubSeq(list, size + 1, Len(list)), size)

\* slice::chunks(size): while elements remain, the next chunk is the first
\* `size` of them, or all of them when fewer remain.
RECURSIVE chunks(_, _)
chunks(list, size) ==
    IF list = << >> THEN << >>
    ELSE LET k == IF Len(list) < size THEN Len(list) ELSE size
         IN  << SubSeq(list, 1, k) >>
                 \o chunks(SubSeq(list, k + 1, Len(list)), size)

\* `test_cases.chunks(BATCH_SIZE).map(|c| c.to_vec()).collect()`
create_batches(test_cases) == chunks(test_cases, BATCH_SIZE)

CreateBatches(test_cases) ==
    Call([test_cases |-> test_cases, fn |-> "create_batches"],
         create_batches(test_cases))

NextBatches ==
    /\ call = NoCall
    /\ \E tc \in TestLists : CreateBatches(tc)

SpecBatches == Init /\ [][NextBatches]_vars

\* ------------------------------------------------- scheduler.rs: selection
\* cpu_load_percent is an f32: NaN stands for the value that is not a number,
\* which a Heartbeat can carry like any other.
NaN == -1

\* `a < b` on f32: false when either side is NaN.
f32_lt(a, b) == a # NaN /\ b # NaN /\ a < b

\* `a.partial_cmp(&b).unwrap_or(std::cmp::Ordering::Equal)`
cmp_load(a, b) ==
    IF a = NaN \/ b = NaN THEN "Equal"
    ELSE IF a < b THEN "Less"
    ELSE IF a > b THEN "Greater"
    ELSE "Equal"

\* The orders in which `state.workers.iter()` may yield the entries of a
\* registry: the map fixes none.
Orders(map) ==
    { o \in [1..Cardinality(DOMAIN map) -> DOMAIN map] :
        \A i, j \in DOMAIN o : i # j => o[i] # o[j] }

\* The compile filter, had it let a load of exactly 50 through.
compile_filter_AtMost50(map, w) ==
    /\ "can_compile" \in map[w].tags
    /\ map[w].cpu_load_percent # NaN
    /\ map[w].cpu_load_percent <= 50

\* `tags.contains("can_compile") && cpu_load_percent < 50.0`
compile_filter(map, w) ==
    /\ "can_compile" \in map[w].tags
    /\ f32_lt(map[w].cpu_load_percent, 50)

\* `cpu_load_percent < 80.0`
execution_filter(map, w) == f32_lt(map[w].cpu_load_percent, 80)

\* Iterator::min_by over the loads: the fold keeps the element it holds
\* unless it compares Greater than the next one.
RECURSIVE min_by_load(_, _, _)
min_by_load(map, held, rest) ==
    IF rest = << >> THEN held
    ELSE min_by_load(map,
             IF cmp_load(map[held].cpu_load_percent,
                         map[Head(rest)].cpu_load_percent) = "Greater"
             THEN Head(rest) ELSE held,
             Tail(rest))

\* select_compile_worker, the entries coming in the order `order`.
select_compile_worker(map, order) ==
    LET found == SelectSeq(order, LAMBDA w : compile_filter(map, w))
    IN  IF found = << >> THEN None
        ELSE min_by_load(map, Head(found), Tail(found))

\* `sort_by`, had the list been left in the order it was collected in.
sort_by_load_Unsorted(map, list) == list

\* `workers.sort_by(..)`: a stable sort, each element going behind the
\* elements that do not compare Greater than it.
RECURSIVE sort_by_load(_, _)
sort_by_load(map, list) ==
    IF list = << >> THEN << >>
    ELSE LET n == Len(list)
             x == list[n]
             front == sort_by_load(map, SubSeq(list, 1, n - 1))
             stay == { i \in 1..Len(front) :
                         \A k \in 1..i :
                             cmp_load(map[front[k]].cpu_load_percent,
                                      map[x].cpu_load_percent) # "Greater" }
             p == Cardinality(stay)
         IN  SubSeq(front, 1, p) \o << x >> \o SubSeq(front, p + 1, Len(front))

\* select_execution_workers: filter, sort, `take(count)`.
select_execution_workers(map, order, count) ==
    LET found == SelectSeq(order, LAMBDA w : execution_filter(map, w))
        sorted == sort_by_load(map, found)
    IN  SubSeq(sorted, 1, IF count < Len(sorted) THEN count ELSE Len(sorted))

SelectCompileWorker ==
    \E order \in Orders(workers) :
        Call([fn |-> "select_compile_worker"],
             select_compile_worker(workers, order))

SelectExecutionWorkers(count) ==
    \E order \in Orders(workers) :
        Call([fn |-> "select_execution_workers", count |-> count],
             select_execution_workers(workers, order, count))

\* Largest `count` asked of select_execution_workers.
MaxCount == 3

\* The registries the selections are run on: three worker ids, with and
\* without the tag, loads on both sides of the two thresholds and on them.
SchedulerWorkers == {"w1", "w2", "w3"}
SchedulerStreams == {1}
SchedulerMetrics ==
    { [cpu_load_percent |-> l, ram_usage_mb |-> 100, active_tasks |-> 1] :
        l \in {10, 50, 80, NaN} }

\* The registry is filled by Register and Heartbeat, then a selection runs.
NextScheduler ==
    \/ \E s \in SchedulerStreams : call = NoCall /\ Connect(s)
    \/ \E s \in SchedulerStreams,
          reg \in RegisterMsgs(SchedulerWorkers, Capacities) :
            call = NoCall /\ WorkerRegister(s, reg)
    \/ \E s \in SchedulerStreams,
          hb \in HeartbeatMsgs(SchedulerWorkers, SchedulerMetrics) :
            call = NoCall /\ WorkerHeartbeat(s, hb)
    \/ call = NoCall /\ SelectCompileWorker
    \/ \E n \in 0..MaxCount : call = NoCall /\ SelectExecutionWorkers(n)

SpecScheduler == Init /\ [][NextScheduler]_vars

\* ------------------------------------------ docker.rs: the test-case loop
\* Strings are sequences of characters, so that `contains` and `trim` work
\* on what they hold.
Killed == << "K", "i", "l", "l", "e", "d" >>
OutOfMemory ==
    << "O", "u", "t", " ", "o", "f", " ", "m", "e", "m", "o", "r", "y" >>
timeout == << "t", "i", "m", "e", "o", "u", "t" >>
ExecutionTimeout ==
    << "E", "x", "e", "c", "u", "t", "i", "o", "n", " ", "t", "i", "m", "e", "o", "u", "t" >>
ExecFailed ==
    << "E", "x", "e", "c", " ", "f", "a", "i", "l", "e", "d", ":", " ", "e", "r", "r", "o", "r" >>

\* str::contains: some window of the string is the pattern.
contains(str, pat) ==
    \E i \in 1..(Len(str) - Len(pat) + 1) :
        SubSeq(str, i, i + Len(pat) - 1) = pat

\* The characters str::trim strips (White_Space) that the pools use.
WhiteSpace == {" ", "\t", "\n", "\r"}

RECURSIVE trim_start(_)
trim_start(str) ==
    IF str # << >> /\ Head(str) \in WhiteSpace THEN trim_start(Tail(str))
    ELSE str

RECURSIVE trim_end(_)
trim_end(str) ==
    IF str # << >> /\ str[Len(str)] \in WhiteSpace
    THEN trim_end(SubSeq(str, 1, Len(str) - 1))
    ELSE str

\* str::trim, had it been trim_end.
trim_OnlyEnd(str) == trim_end(str)

\* str::trim
trim(str) == trim_end(trim_start(str))

\* exec_in_container: the exit code and the combined output of the exec, or
\* an error.
ExecOk(exit_code, output) ==
    [ok |-> TRUE, exit_code |-> exit_code, output |-> output]
ExecErr(e) == [ok |-> FALSE, err |-> e]

\* run_with_input: `Ok((exit_code, output, String::new()))`, errors passed on.
run_with_input(exec) ==
    IF exec.ok
    THEN [ok |-> TRUE, exit_code |-> exec.exit_code, stdout |-> exec.output,
          stderr |-> << >>]
    ELSE exec

\* `let is_mle = ..`
is_mle(exit_code, stdout, stderr) ==
    \/ exit_code = 137
    \/ contains(stdout, Killed)
    \/ contains(stderr, Killed)
    \/ contains(stderr, OutOfMemory)

\* The status, had the exit code been looked at before the memory signs.
test_status_ExitFirst(result, expected_output) ==
    IF result.ok
    THEN IF result.exit_code # 0 THEN "RE"
         ELSE IF is_mle(result.exit_code, result.stdout, result.stderr)
              THEN "MLE"
         ELSE IF trim(result.stdout) = trim(expected_output) THEN "PASSED"
         ELSE "FAILED"
    ELSE IF contains(result.err, timeout) THEN "TLE" ELSE "RE"

\* `let status = ..` of both arms of `match result`.
test_status(result, expected_output) ==
    IF result.ok
    THEN IF is_mle(result.exit_code, result.stdout, result.stderr) THEN "MLE"
         ELSE IF result.exit_code # 0 THEN "RE"
         ELSE IF trim(result.stdout) = trim(expected_output) THEN "PASSED"
         ELSE "FAILED"
    ELSE IF contains(result.err, timeout) THEN "TLE" ELSE "RE"

\* The TestCaseResult of one test case.
tc_result(result, expected_output) ==
    [status |-> test_status(result, expected_output),
     stdout |-> IF result.ok THEN result.stdout ELSE << >>,
     stderr |-> IF result.ok THEN result.stderr ELSE result.err]

\* What a test program may print and what a test case may expect: a core
\* text between leading and trailing white space.
Pads == { << >>, << " " >>, << "\n" >>, << "\t", " " >>, << "\r", "\n" >> }
OutputCores ==
    { << >>, << "4", "2" >>, << "4", " ", "2" >>, Killed,
      << "x" >> \o Killed \o << "!" >>,
      << "k", "i", "l", "l", "e", "d" >>,
      OutOfMemory }
ExpectedCores == { << >>, << "4", "2" >>, << "4", " ", "2" >>, Killed }
Outputs == { p \o c \o q : p \in Pads, c \in OutputCores, q \in Pads }
Expected == { p \o c \o q : p \in Pads, c \in ExpectedCores, q \in Pads }

\* Exit codes: success, failure, SIGKILL, and the -1 of a failed inspect.
ExitCodes == {0, 1, 137, -1}

ExecResults ==
    { ExecOk(x, o) : x \in ExitCodes, o \in Outputs }
    \cup { ExecErr(ExecutionTimeout), ExecErr(ExecFailed) }

\* One turn of `for tc in test_cases`.
RunTest(exec, expected_output) ==
    Call([fn |-> "run_test", exec |-> exec,
          expected_output |-> expected_output],
         tc_result(run_with_input(exec), expected_output))

\* The loop is entered once: a test program is run on one test case.
NextVerdict ==
    /\ call = NoCall
    /\ \E exec \in ExecResults, e \in Expected : RunTest(exec, e)

SpecVerdict == Init /\ [][NextVerdict]_vars

\* ------------------------------------------------ docker.rs: execute_batch
\* `TestCaseResult { test_id: tc.id.clone(), status, stdout, stderr, .. }`
TestCaseResult(tc, result) ==
    [status |-> tc_result(result, tc.expected_output).status,
     stdout |-> tc_result(result, tc.expected_output).stdout,
     stderr |-> tc_result(result, tc.expected_output).stderr,
     test_id |-> tc.id]

\* The loop, had it been left at the first test that does not pass.
RECURSIVE run_tests_StopAtFailure(_, _)
run_tests_StopAtFailure(test_cases, execs) ==
    IF test_cases = << >> THEN << >>
    ELSE LET r == TestCaseResult(Head(test_cases), run_with_input(Head(execs)))
         IN  IF r.status # "PASSED" THEN << r >>
             ELSE << r >> \o run_tests_StopAtFailure(Tail(test_cases), Tail(execs))

\* `for tc in test_cases { .. results.push(tc_result); }`: execs[i] is what
\* the container answers to the run of the i-th test case.
RECURSIVE run_tests(_, _)
run_tests(test_cases, execs) ==
    IF test_cases = << >> THEN << >>
    ELSE << TestCaseResult(Head(test_cases), run_with_input(Head(execs))) >>
             \o run_tests(Tail(test_cases), Tail(execs))

\* format!("Failed to create container: {}", e) and its like for the start.
FailedToCreate == << "Failed to create container: ", "error" >>
FailedToStart == << "Failed to start container: ", "error" >>

\* The early returns, had the result of start_container been dropped.
container_error_StartUnchecked(docker) ==
    IF ~docker.create THEN FailedToCreate ELSE << >>

\* `if let Err(e) = create_container(..) { return .. }` and the same for
\* start_container: the system_error of the early return, empty if none is
\* taken.  The results of upload_to_container and of the chmod and tar
\* commands are dropped (`let _ =`) and decide nothing.
container_error(docker) ==
    IF ~docker.create THEN FailedToCreate
    ELSE IF ~docker.start THEN FailedToStart
    ELSE << >>

\* The return of execute_batch that the answers of the daemon lead to: the
\* early return on create_container, the one on start_container, or the end
\* of the function.
execute_path(docker) ==
    IF ~docker.create THEN "create"
    ELSE IF ~docker.start THEN "start"
    ELSE "done"

\* The calls of cleanup_container, had the return on a failed upload of
\* compile been written without one.
cleanup_calls_UploadLeaks(path) ==
    IF path \in {"start", "done"} THEN 1 ELSE 0

\* The number of calls of `self.cleanup_container(&container_name)` on each
\* return of compile and of execute_batch: one before the return on a
\* failed start, one before the return on a failed upload (compile only),
\* one before the final result; none on the returns taken before a
\* container exists.
cleanup_calls(path) ==
    IF path \in {"start", "upload", "done"} THEN 1 ELSE 0

\* execute_batch: the BatchExecutionResult, with the number of test programs
\* that were run and the number of calls of cleanup_container.
execute_batch(docker, test_cases) ==
    LET e == container_error(docker) IN
    IF e # << >>
    THEN [results |-> << >>, system_error |-> e, runs |-> 0,
          cleanups |-> cleanup_calls(execute_path(docker))]
    ELSE LET results == run_tests(test_cases, docker.exec)
         IN  [results |-> results, system_error |-> << >>,
              runs |-> Len(results),
              cleanups |-> cleanup_calls(execute_path(docker))]

\* A batch of at most MaxBatch test cases.
MaxBatch == 2
FortyTwo == << "4", "2" >>
BatchTests == { [expected_output |-> FortyTwo, id |-> i] : i \in {"t1", "t2"} }
Batches == UNION { [1..n -> BatchTests] : n \in 0..MaxBatch }

\* What a run answers when the program is in the container: the expected
\* output, another output, a failure, a kill, a timeout.
BatchExecs ==
    { ExecOk(0, FortyTwo \o << "\n" >>), ExecOk(0, << "4", "1" >>),
      ExecOk(1, << >>), ExecOk(137, << >>), ExecErr(ExecutionTimeout) }

\* What a run answers when the upload failed and /tmp/main is not there:
\* the shell's exit code 127.
NotFound == << "n", "o", "t", " ", "f", "o", "u", "n", "d" >>
MissingExecs == { ExecOk(127, NotFound) }

\* The answers of the docker daemon to the calls of one execute_batch.
Dockers(n) ==
    { [exec |-> x, create |-> c, start |-> s, upload |-> u] :
        c \in BOOLEAN, s \in BOOLEAN, u \in {TRUE},
        x \in [1..n -> BatchExecs] }
    \cup
    { [exec |-> x, create |-> c, start |-> s, upload |-> u] :
        c \in BOOLEAN, s \in BOOLEAN, u \in {FALSE},
        x \in [1..n -> MissingExecs] }

ExecuteBatch(docker, test_cases) ==
    Call([test_cases |-> test_cases, fn |-> "execute_batch", docker |-> docker],
         execute_batch(docker, test_cases))

NextExecute ==
    /\ call = NoCall
    /\ \E tcs \in Batches : \E d \in Dockers(Len(tcs)) : ExecuteBatch(d, tcs)

SpecExecute == Init /\ [][NextExecute]_vars

\* ------------------------------------------------------ docker.rs: compile
c_plus_plus == << "c", "+", "+" >>
c_language == << "c" >>
rust == << "r", "u", "s", "t" >>
go == << "g", "o" >>
golang == << "g", "o", "l", "a", "n", "g" >>

\* `match language.to_lowercase().as_str()`: the arms other than `_`.
is_compiled(language) ==
    to_lowercase(language) \in {cpp, c_plus_plus, c_language, rust, go, golang, java}

\* The compiler_output of the early returns and of a failed exec creation.
Unsupported == << "Unsupported compiled language: ", "language" >>
FailedToUpload == << "Failed to upload source: ", "error" >>
FailedToCreateExec == << "Failed to create exec: ", "error" >>

\* What download_file returns when it succeeds.
Artifact == << "bin" >>

\* The return of compile that the language and the answers of the daemon
\* lead to.
compile_path(docker, language) ==
    IF ~is_compiled(language) THEN "unsupported"
    ELSE IF ~docker.create THEN "create"
    ELSE IF ~docker.start THEN "start"
    ELSE IF ~docker.upload THEN "upload"
    ELSE "done"

\* The end of compile: `let (success, compiler_output) = match exec_result`
\* and `let binary_payload = if success { download_file(..).await
\* .unwrap_or_default() } else { vec![] }`.
compile_done(docker) ==
    LET exec_ok == docker.exec.ok /\ docker.exec.exit_code = 0 IN
    [success |-> exec_ok,
     compiler_output |-> IF docker.exec.ok THEN docker.exec.output
                         ELSE docker.exec.err,
     binary_payload |-> IF exec_ok /\ docker.download THEN Artifact ELSE << >>]

\* compile: the CompileResult, with the number of calls of
\* cleanup_container.
compile(docker, language) ==
    LET path == compile_path(docker, language)
        failed(output) == [success |-> FALSE, compiler_output |-> output,
                           binary_payload |-> << >>]
        result == CASE path = "unsupported" -> failed(Unsupported)
                    [] path = "create" -> failed(FailedToCreate)
                    [] path = "start" -> failed(FailedToStart)
                    [] path = "upload" -> failed(FailedToUpload)
                    [] OTHER -> compile_done(docker)
    IN  [success |-> result.success,
         compiler_output |-> result.compiler_output,
         binary_payload |-> result.binary_payload,
         cleanups |-> cleanup_calls(path)]

\* The languages a CompileTask may name: compiled ones in two spellings,
\* and languages compile knows nothing of.
CompileLanguages ==
    { cpp, << "C", "P", "P" >>, c_plus_plus, c_language, rust, go, golang,
      java, << "J", "a", "v", "a" >>, python, py, empty_language }

\* What the exec of the compile command answers: exit 0, a compiler error,
\* the -1 of a failed inspect, a failed exec creation, the 60 s timeout.
CompileExecs ==
    { ExecOk(0, << >>), ExecOk(1, << "e", "r", "r", "o", "r" >>), ExecOk(-1, << >>),
      ExecErr(FailedToCreateExec), ExecErr(ExecutionTimeout) }

\* The answers of the docker daemon to the calls of one compile.
CompileDockers ==
    { [exec |-> x, create |-> c, start |-> s, upload |-> u, download |-> d] :
        x \in CompileExecs, c \in BOOLEAN, s \in BOOLEAN, u \in BOOLEAN,
        d \in BOOLEAN }

Compile(docker, language) ==
    Call([language |-> language, fn |-> "compile", docker |-> docker],
         compile(docker, language))

NextCompile ==
    /\ call = NoCall
    /\ \E d \in CompileDockers, l \in CompileLanguages : Compile(d, l)

SpecCompile == Init /\ [][NextCompile]_vars

\* compile and execute_batch, as the worker calls them for its two kinds of
\* task.
NextDocker ==
    /\ call = NoCall
    /\ \/ \E d \in CompileDockers, l \in CompileLanguages : Compile(d, l)
       \/ \E tcs \in Batches : \E d \in Dockers(Len(tcs)) : ExecuteBatch(d, tcs)

SpecDocker == Init /\ [][NextDocker]_vars

\* =================================================================
\* Properties
\* =================================================================
Phase(j) == jobs[j].state.phase

\* The pump of stream s has not left its loop.
StreamOpen(s) == status[s] \in {"open", "broken"}

\* C1: once a job is Completed, no later worker message changes its list of
\* results.
C1_ResultsFrozenAfterCompleted ==
    [][\A j \in JobIds :
          (j \in DOMAIN jobs /\ Phase(j) = "Completed")
              => jobs'[j].results = jobs[j].results]_vars

\* C2: Completed is terminal: a job that is Completed stays Completed.
C2_CompletedIsTerminal ==
    [][\A j \in JobIds :
          (j \in DOMAIN jobs /\ Phase(j) = "Completed")
              => jobs'[j].state = Completed]_vars

\* C3: a job enters Completed at most once and its completion signal is sent
\* at most once.
C3_CompletedAtMostOnce ==
    \A j \in JobIds : completions[j] <= 1 /\ signals[j] <= 1

\* C4: the number of accumulated results never exceeds total_test_cases.
C4_ResultsBounded ==
    \A j \in DOMAIN jobs : Len(jobs[j].results) <= jobs[j].total_test_cases

\* C5: the registry has an entry for W exactly when the stream W is
\* registered on is open: an entry's stream is open, and an open stream whose
\* last Register named W finds W in the registry.
C5_EntryIffStreamOpen ==
    /\ \A w \in DOMAIN workers : StreamOpen(workers[w].sender)
    /\ \A s \in StreamIds :
          (StreamOpen(s) /\ worker_id[s] # None) => worker_id[s] \in DOMAIN workers

\* C6: a submission answered 503 has left no job record in an active phase.
C6_No503WithActiveJob ==
    \A j \in JobIds :
        resp[j] = 503 =>
            (j \notin DOMAIN jobs \/ Phase(j) \notin {"Compiling", "Executing"})

\* C7: an interpreted job starts in Executing{1}, its only phase change is
\* Executing{1} -> Completed with the batch's results recorded, and once an
\* agent holds its ExecuteBatch command the job reaches Completed unless the
\* agent's stream drops.
C7_PhaseSteps ==
    \A j \in JobIds :
        /\ (j \notin DOMAIN jobs /\ j \in DOMAIN jobs'
              /\ is_interpreted(jobs'[j].language))
              => jobs'[j].state = Executing(1)
        /\ (j \in DOMAIN jobs /\ is_interpreted(jobs[j].language)
              /\ jobs'[j].state # jobs[j].state)
              => /\ jobs[j].state = Executing(1)
                 /\ jobs'[j].state = Completed
                 /\ jobs'[j].results = jobs[j].test_cases

C7_Held(j, s) ==
    /\ j \in DOMAIN jobs
    /\ is_interpreted(jobs[j].language)
    /\ status[s] = "open"
    /\ \E c \in wtasks[s] : c.job_id = j /\ c.type = "Execute"

C7_Done(j, s) ==
    \/ status[s] # "open"
    \/ /\ j \in DOMAIN jobs
       /\ jobs[j].state = Completed
       /\ jobs[j].results = jobs[j].test_cases

C8_CompileFailureCompletes ==
    [][\A j \in JobIds :
          (j \in DOMAIN jobs /\ Phase(j) = "Compiling"
              /\ jobs'[j].state.phase = "Completed")
              => /\ signals'[j] = signals[j] + 1
                 /\ jobs'[j].compiler_output # <<>>
                 /\ jobs'[j].results = <<>>
                 /\ hsend' = hsend
                 /\ sink' = sink]_vars

\* C9: the initial phase is Executing{1} for python, python3, javascript,
\* js, node and ruby in any letter case and Compiling for every other
\* language, and the first command put on a sink for the job is ExecuteBatch
\* in the first case and Compile in the second.
InterpretedSpellings ==
    { python, Python, python3, javascript, js, JS, node, Node, ruby, RUBY }

CompiledSpellings == { cpp, java, py, empty_language }

C9_Expected(lang) ==
    IF lang \in InterpretedSpellings
    THEN [cmd |-> "Execute", state |-> Executing(1)]
    ELSE [cmd |-> "Compile", state |-> Compiling]

\* C9: initial phase and first command are decided by the language name,
\* compared without regard to letter case.
C9_InitialPhaseByLanguage ==
    /\ [][\A j \in JobIds :
            (j \notin DOMAIN jobs /\ j \in DOMAIN jobs')
                => /\ jobs'[j].language \in InterpretedSpellings \cup CompiledSpellings
                   /\ jobs'[j].state = C9_Expected(jobs'[j].language).state]_vars
    /\ [](\A j \in JobIds :
            first_cmd[j] # None
                => /\ j \in DOMAIN jobs
                   /\ first_cmd[j] = C9_Expected(jobs[j].language).cmd)

\* C9 (witness): a job whose language is spelt with capitals was accepted and
\* its first command is ExecuteBatch.
C9_Witness ==
    \E j \in DOMAIN jobs :
        /\ jobs[j].language \in {Python, JS, Node, RUBY}
        /\ first_cmd[j] = "Execute"
        /\ resp[j] = 202

C11_LatestRegisterWins ==
    \A w \in DOMAIN workers :
        /\ w \in DOMAIN reg_log
        /\ workers[w].sender = reg_log[w].stream
        /\ workers[w].cpu_cores = reg_log[w].reg.cpu_cores
        /\ workers[w].total_ram_mb = reg_log[w].reg.total_ram_mb
        /\ workers[w].tags = reg_log[w].reg.tags

\* A Register replaced the entry another, still connected stream had made.
C11_Witness ==
    \E w \in DOMAIN workers, s \in StreamIds :
        /\ reg_log[w].reset
        /\ s # reg_log[w].stream
        /\ worker_id[s] = w
        /\ status[s] = "open"
        /\ workers[w].sender = reg_log[w].stream

\* C12: a registry entry carries the metrics (0, 0, 0) from the Register that
\* made it until a Heartbeat for its id is handled, also when that Register
\* replaced an entry that carried other metrics.
C12_ZeroUntilHeartbeat ==
    \A w \in DOMAIN workers :
        (w \in DOMAIN reg_log /\ ~reg_log[w].heartbeat) => ~Loaded(w)

\* A re-registration has replaced an entry that carried metrics, and no
\* Heartbeat has followed yet.
C12_Witness ==
    \E w \in DOMAIN workers :
        /\ reg_log[w].reset
        /\ ~reg_log[w].heartbeat
        /\ ~Loaded(w)

\* C13: handling a Heartbeat is idempotent and creates no entry: the registry
\* a Heartbeat step leaves is the registry a second application of the same
\* Heartbeat would leave, and a Heartbeat for an id without an entry leaves
\* the registry as it was.
C13_HeartbeatIdempotent ==
    [][\A s \in StreamIds, hb \in HeartbeatMsgs(WorkerIds, Metrics) :
          WorkerHeartbeat(s, hb) =>
              /\ HeartbeatUpdate(workers', hb) = workers'
              /\ DOMAIN workers' = DOMAIN workers
              /\ hb.worker_id \notin DOMAIN workers => workers' = workers]_vars

\* A Heartbeat has been applied to an entry while another id has none.
C13_Witness ==
    \E w \in DOMAIN workers :
        /\ reg_log[w].heartbeat
        /\ Loaded(w)
        /\ DOMAIN workers # WorkerIds

\* The concatenation of a list of lists.
RECURSIVE C14_Concat(_)
C14_Concat(lists) ==
    IF lists = << >> THEN << >>
    ELSE Head(lists) \o C14_Concat(Tail(lists))

\* C14: create_batches partitions its input: the chunks concatenated are the
\* input in its order, every chunk has 1 to 20 elements, every chunk but the
\* last has exactly 20, and the empty list gives no chunk.
C14_BatchesPartitionInput ==
    call.fn = "create_batches" =>
        /\ C14_Concat(ret) = call.test_cases
        /\ \A i \in 1..Len(ret) :
              /\ Len(ret[i]) >= 1
              /\ Len(ret[i]) <= 20
              /\ i < Len(ret) => Len(ret[i]) = 20
        /\ call.test_cases = << >> => ret = << >>

\* A list of more than 40 distinct test cases came back as two full chunks
\* and a short one.
C14_Witness ==
    /\ call.fn = "create_batches"
    /\ Len(call.test_cases) > 40
    /\ call.test_cases[2] = 2
    /\ Len(ret) = 3
    /\ Len(ret[3]) < 20

\* The workers select_compile_worker may choose from.
C15_Eligible ==
    { w \in DOMAIN workers :
        /\ "can_compile" \in workers[w].tags
        /\ workers[w].cpu_load_percent # NaN
        /\ workers[w].cpu_load_percent < 50 }

\* C15: select_compile_worker returns a registered worker with the tag
\* can_compile and a load below 50 whose load is the least among such
\* workers, and returns none exactly when there is no such worker.
C15_CompileWorkerIsLeastLoaded ==
    call.fn = "select_compile_worker" =>
        /\ ret = None <=> C15_Eligible = {}
        /\ ret # None =>
              /\ ret \in C15_Eligible
              /\ \A v \in C15_Eligible :
                    workers[ret].cpu_load_percent <= workers[v].cpu_load_percent

\* The selection passed over a tagged worker at the threshold, an untagged
\* idle worker, and took the tagged worker below the threshold.
C15_Witness ==
    /\ call.fn = "select_compile_worker"
    /\ ret # None
    /\ workers[ret].cpu_load_percent = 10
    /\ \E v \in DOMAIN workers :
          /\ "can_compile" \in workers[v].tags
          /\ workers[v].cpu_load_percent = 50
    /\ \E v \in DOMAIN workers :
          /\ workers[v].tags = {}
          /\ workers[v].cpu_load_percent = 0

\* The workers select_execution_workers may choose from.
C16_Eligible ==
    { w \in DOMAIN workers :
        /\ workers[w].cpu_load_percent # NaN
        /\ workers[w].cpu_load_percent < 80 }

C17_VerdictFirstMatch ==
    call.fn = "run_test" =>
        IF ~call.exec.ok
        THEN call.exec.err = ExecutionTimeout => ret.status = "TLE"
        ELSE ret.status =
                IF \/ call.exec.exit_code = 137
                   \/ contains(ret.stdout, Killed)
                   \/ contains(ret.stderr, Killed)
                   \/ contains(ret.stderr, OutOfMemory)
                THEN "MLE"
                ELSE IF call.exec.exit_code # 0 THEN "RE"
                ELSE IF trim(ret.stdout) = trim(call.expected_output)
                     THEN "PASSED"
                ELSE "FAILED"

\* A test exited with a code other than 0 and 137 although its output was
\* the expected one, and got RE.
C17_Witness ==
    /\ call.fn = "run_test"
    /\ call.exec.ok
    /\ call.exec.exit_code = 1
    /\ call.exec.output # << >>
    /\ call.exec.output = call.expected_output
    /\ ret.status = "RE"

\* C18: for a test that exited with 0 and is neither MLE nor TLE, white
\* space added to or taken from either end of its output or of the expected
\* output leaves the verdict as it is.
C18_WhiteSpaceNeverDecides ==
    (/\ call.fn = "run_test"
     /\ call.exec.ok
     /\ call.exec.exit_code = 0
     /\ ret.status \in {"PASSED", "FAILED"}) =>
        LET out == call.exec.output
            exp == call.expected_output
            verdict(o, e) == test_status(run_with_input(ExecOk(0, o)), e)
        IN  /\ \A p, q \in Pads :
                  /\ verdict(p \o out \o q, exp) = ret.status
                  /\ verdict(out, p \o exp \o q) = ret.status
            /\ \A i \in 1..Len(out), j \in 1..Len(out) :
                  (/\ i <= j
                   /\ \A k \in 1..Len(out) :
                         (k < i \/ k > j) => out[k] \in WhiteSpace)
                      => verdict(SubSeq(out, i, j), exp) = ret.status
            /\ \A i \in 1..Len(exp), j \in 1..Len(exp) :
                  (/\ i <= j
                   /\ \A k \in 1..Len(exp) :
                         (k < i \/ k > j) => exp[k] \in WhiteSpace)
                      => verdict(out, SubSeq(exp, i, j)) = ret.status

\* An output and an expected output that differ only in the white space
\* around them passed.
C18_Witness ==
    /\ call.fn = "run_test"
    /\ call.exec.ok
    /\ call.exec.exit_code = 0
    /\ call.exec.output # call.expected_output
    /\ call.exec.output # << >>
    /\ call.expected_output # << >>
    /\ Head(call.exec.output) \in WhiteSpace
    /\ call.expected_output[Len(call.expected_output)] \in WhiteSpace
    /\ ret.status = "PASSED"

\* C19: a submission with an empty language name or an empty test-case list
\* is refused: no job record is made for it and no command is sent for it.
C19_InvalidSubmissionRefused ==
    \A j \in JobIds :
        (j \in DOMAIN jobs \/ first_cmd[j] # None) =>
            /\ j \in DOMAIN jobs
            /\ jobs[j].language # << >>
            /\ jobs[j].test_cases # << >>

\* C20: when a BatchExecutionResult with a non-empty system_error is handled
\* for a job, the status response of that job carries the error in its
\* error field from then on, and the batch counter of an executing job is
\* still decremented.
C20_SystemErrorSurfaced ==
    [][\A s \in StreamIds, r \in BatchResultMsgs :
          (/\ WorkerBatchResult(s, r)
           /\ r.system_error # ""
           /\ r.job_id \in DOMAIN jobs) =>
              /\ get_job_status(jobs', r.job_id).error = << r.system_error >>
              /\ jobs[r.job_id].state.phase = "Executing" =>
                    \/ jobs'[r.job_id].state.phase = "Completed"
                    \/ jobs'[r.job_id].state.pending_batches
                           = jobs[r.job_id].state.pending_batches - 1]_vars

C21_SendNeverWaits ==
    /\ \A s \in StreamIds : (hsend[s] # << >>) ~> (hsend[s] = << >>)
    /\ \A j \in JobIds : (spc[j] = "selected") ~> (spc[j] = "done")

\* C22: a CompileResult for a job that is absent or not in Compiling is
\* discarded: the job's phase, compiler_output, binary and results stay as
\* they were and no ExecuteBatch is dispatched.
C22_StaleCompileResultDiscarded ==
    [][\A s \in StreamIds, r \in CompileResultMsgs :
          (/\ WorkerCompileResult(s, r)
           /\ (r.job_id \in DOMAIN jobs => Phase(r.job_id) # "Compiling"))
              => /\ jobs' = jobs
                 /\ hsend' = hsend
                 /\ sink' = sink]_vars

\* C23: a successful CompileResult for a job in Compiling leaves the job
\* Executing{B} with B >= 1 equal to the number of ExecuteBatch commands the
\* handler hands out, and each command handed out lands on a worker sink.
C23_PendingCountsDispatched ==
    [][/\ \A s \in StreamIds, r \in CompileResultMsgs :
             (/\ WorkerCompileResult(s, r)
              /\ r.success
              /\ r.job_id \in DOMAIN jobs
              /\ Phase(r.job_id) = "Compiling")
                 => /\ jobs'[r.job_id].state.phase = "Executing"
                    /\ jobs'[r.job_id].state.pending_batches >= 1
                    /\ jobs'[r.job_id].state.pending_batches = Len(hsend'[s])
       /\ \A s \in StreamIds :
             HandleCompileSend(s)
                 => \E u \in StreamIds : sink'[u] = Append(sink[u], hsend[s][1].cmd)]_vars

\* C24: a BatchExecutionResult for a job in Executing{n} appends its results
\* to the job and takes one off the counter, not below zero; the job becomes
\* Completed and its completion signal is sent in the step that brings the
\* counter to zero, and in no other.
C24_BatchResultCountsDown ==
    [][\A s \in StreamIds, r \in BatchResultMsgs :
          (/\ WorkerBatchResult(s, r)
           /\ r.job_id \in DOMAIN jobs
           /\ Phase(r.job_id) = "Executing")
              => LET j == r.job_id
                     n == jobs[j].state.pending_batches
                     m == IF n > 0 THEN n - 1 ELSE 0
                 IN  /\ jobs'[j].results = jobs[j].results \o r.results
                     /\ IF m = 0
                        THEN /\ jobs'[j].state = Completed
                             /\ signals'[j] = signals[j] + 1
                        ELSE /\ jobs'[j].state = Executing(m)
                             /\ signals'[j] = signals[j]]_vars

\* C25: a submission answered 202 has put exactly one command on the sink of
\* a worker that was least loaded when it was selected, and a successful
\* CompileResult puts exactly one ExecuteBatch, with the artifact and all the
\* job's test cases, on the sink of a worker least loaded at selection.
C25_PlacedOn(cmd) ==
    \E u \in StreamIds :
        /\ sink'[u] = Append(sink[u], cmd)
        /\ \A v \in StreamIds \ {u} : sink'[v] = sink[v]

C25_AcceptedMeansDispatched ==
    [][/\ \A j \in JobIds :
             (SubmitInsert(j) /\ spc'[j] = "selected") => ssel'[j] \in LeastLoaded
       /\ \A j \in JobIds :
             (SubmitSend(j) /\ resp'[j] = 202)
                 => C25_PlacedOn(FirstCommand(j, sreq[j]))
       /\ \A s \in StreamIds, r \in CompileResultMsgs :
             (WorkerCompileResult(s, r) /\ hsend'[s] # << >>)
                 => /\ hsend'[s][1].to \in LeastLoaded
                    /\ hsend'[s][1].cmd =
                           ExecuteCmd(r.job_id, jobs[r.job_id].language,
                                      << r.binary_payload >>,
                                      jobs[r.job_id].test_cases)
       /\ \A s \in StreamIds :
             HandleCompileSend(s) => C25_PlacedOn(hsend[s][1].cmd)]_vars

\* C26: a send whose selected worker has disconnected since the selection
\* puts the command on no sink, neither that worker's nor another's, leaves
\* the job as it was and sets up no further send; and a job none of whose
\* commands is queued, held by a worker or about to be sent keeps its phase,
\* so that it never becomes Completed.
C26_Lost(j) ==
    /\ j \in DOMAIN jobs
    /\ spc[j] = "done"
    /\ \A s \in StreamIds :
          /\ \A i \in 1..Len(sink[s]) : sink[s][i].job_id # j
          /\ \A c \in wtasks[s] : c.job_id # j
          /\ hsend[s] # << >> => hsend[s][1].cmd.job_id # j

C26_FailedSendIsDropped ==
    [][/\ \A j \in JobIds :
             (SubmitSend(j) /\ ~Receiving(ssel[j]))
                 => sink' = sink /\ jobs' = jobs /\ hsend' = hsend
       /\ \A s \in StreamIds :
             (HandleCompileSend(s) /\ ~Receiving(hsend[s][1].to))
                 => /\ sink' = sink
                    /\ jobs' = jobs
                    /\ \A u \in StreamIds : hsend'[u] = << >> \/ hsend'[u] = hsend[u]
       /\ \A j \in JobIds :
             C26_Lost(j) => jobs'[j].state = jobs[j].state]_vars

\* C26 (witness): a submission was answered 202 although its command
\* reached no sink, the job is in its initial phase with no command of it
\* anywhere, and another worker is registered and receiving.
C26_Witness ==
    \E j \in DOMAIN jobs :
        /\ resp[j] = 202
        /\ first_cmd[j] = None
        /\ C26_Lost(j)
        /\ jobs[j].state = initial_state(jobs[j].language)
        /\ \E w \in DOMAIN workers : Receiving(w)

\* C28: when the container was created and started, execute_batch returns
\* one result per test case, in the order of the input, each with the id of
\* its test case, and an empty system_error; every test case is run,
\* whatever the outcome of the ones before it.
C28_OneResultPerTest ==
    (/\ call.fn = "execute_batch"
     /\ call.docker.create
     /\ call.docker.start)
        => /\ Len(ret.results) = Len(call.test_cases)
           /\ \A i \in 1..Len(call.test_cases) :
                 ret.results[i].test_id = call.test_cases[i].id
           /\ ret.runs = Len(call.test_cases)
           /\ ret.system_error = << >>

\* C28 (witness): a batch of two test cases whose first did not pass and
\* whose second passed.
C28_Witness ==
    /\ call.fn = "execute_batch"
    /\ Len(call.test_cases) = 2
    /\ call.test_cases[1].id # call.test_cases[2].id
    /\ Len(ret.results) = 2
    /\ ret.results[1].status \in {"FAILED", "RE", "MLE", "TLE"}
    /\ ret.results[2].status = "PASSED"

\* C29: when creating or starting the container fails, execute_batch returns
\* a non-empty system_error and no results, and runs no test case.
C29_ContainerFailureAborts ==
    (/\ call.fn = "execute_batch"
     /\ (~call.docker.create \/ ~call.docker.start))
        => /\ ret.system_error # << >>
           /\ ret.results = << >>
           /\ ret.runs = 0

\* C29 (witness): a batch with test cases whose container was created and
\* failed to start.
C29_Witness ==
    /\ call.fn = "execute_batch"
    /\ call.docker.create
    /\ ~call.docker.start
    /\ call.test_cases # << >>
    /\ ret.system_error = FailedToStart

\* C30: when the upload of the payload into the container fails, the batch
\* result has a non-empty system_error.
C30_UploadFailureReported ==
    (/\ call.fn = "execute_batch"
     /\ call.docker.create
     /\ call.docker.start
     /\ ~call.docker.upload)
        => ret.system_error # << >>

\* C34: a Heartbeat changes nothing but the three metric fields of the
\* registry entry of the id it names: the registry has the same ids, that
\* entry keeps its sink, cpu_cores, total_ram_mb and tags, every other entry
\* is as it was, and so is the job map.
C34_HeartbeatFrame ==
    [][\A s \in StreamIds, hb \in HeartbeatMsgs(WorkerIds, Metrics) :
          WorkerHeartbeat(s, hb)
              => /\ jobs' = jobs
                 /\ DOMAIN workers' = DOMAIN workers
                 /\ \A w \in DOMAIN workers :
                       IF w = hb.worker_id
                       THEN /\ workers'[w].sender = workers[w].sender
                            /\ workers'[w].cpu_cores = workers[w].cpu_cores
                            /\ workers'[w].total_ram_mb = workers[w].total_ram_mb
                            /\ workers'[w].tags = workers[w].tags
                       ELSE workers'[w] = workers[w]]_vars

\* C34 (witness): two workers are registered and a job is in the job map;
\* one worker's entry carries the metrics of a Heartbeat and the other's
\* still has the zeros of its Register.
C34_Witness ==
    /\ DOMAIN jobs # {}
    /\ \E w, v \in DOMAIN workers :
          /\ w # v
          /\ workers[w].cpu_load_percent = LightLoad.cpu_load_percent
          /\ workers[w].active_tasks = LightLoad.active_tasks
          /\ workers[v].cpu_load_percent = 0
          /\ workers[v].active_tasks = 0
          /\ workers[w].sender # workers[v].sender

\* C35: in every reachable state a job whose phase is Executing has
\* pending_batches >= 1: Executing{0} is never seen between handler steps.
C35_ExecutingHasPending ==
    \A j \in DOMAIN jobs :
        Phase(j) = "Executing" => jobs[j].state.pending_batches >= 1

\* C35 (witness): a batch result brought the counter of an Executing job to
\* zero, and the job is Completed with the results of that batch.
C35_Witness ==
    \E j \in DOMAIN jobs :
        /\ Phase(j) = "Completed"
        /\ jobs[j].results # << >>
        /\ jobs[j].compiler_output = << >>
        /\ completions[j] = 1

\* C33: the job is in the job map before its first command is sent, and it
\* has left Compiling before the ExecuteBatch that follows its compilation
\* is sent: every command that is about to be sent, queued on a sink or held
\* by a worker names a job of the map, and if it is the ExecuteBatch that
\* carries the compiled binary the job is not in Compiling.
C33_Visible(cmd) ==
    /\ cmd.job_id \in DOMAIN jobs
    /\ (cmd.type = "Execute" /\ cmd.payload # << "source" >>)
          => Phase(cmd.job_id) # "Compiling"

C33_JobVisibleBeforeCommand ==
    /\ \A j \in JobIds : spc[j] = "selected" => j \in DOMAIN jobs
    /\ \A s \in StreamIds :
          /\ \A i \in 1..Len(sink[s]) : C33_Visible(sink[s][i])
          /\ \A c \in wtasks[s] : C33_Visible(c)
          /\ hsend[s] # << >> => C33_Visible(hsend[s][1].cmd)

\* C33 (witness): a worker holds the ExecuteBatch that carries the compiled
\* binary of a job, and the job is Executing.
C33_Witness ==
    \E s \in StreamIds : \E c \in wtasks[s] :
        /\ c.type = "Execute"
        /\ c.payload # << "source" >>
        /\ c.job_id \in DOMAIN jobs
        /\ Phase(c.job_id) = "Executing"

\* C31: on every return of compile and of execute_batch that follows a
\* successful create_container, cleanup_container has been called, whatever
\* came after the creation: a failed start, a failed upload, a failed or
\* timed-out exec, or success.
C31_CreatedContainerRemoved ==
    /\ (call.fn = "compile" /\ is_compiled(call.language) /\ call.docker.create)
          => ret.cleanups = 1
    /\ (call.fn = "execute_batch" /\ call.docker.create)
          => ret.cleanups = 1

\* C31 (witness): a compile whose container was created and started and
\* whose upload failed has returned.
C31_Witness ==
    /\ call.fn = "compile"
    /\ is_compiled(call.language)
    /\ call.docker.create
    /\ call.docker.start
    /\ ~call.docker.upload
    /\ ret.compiler_output = FailedToUpload
    /\ ret.cleanups = 1

\* C32: compile returns success = TRUE only if the language is a compiled
\* one, the container was created and started, the source was uploaded, the
\* compile command ran and exited 0, and the artifact was downloaded; every
\* failure mode gives success = FALSE.
C32_SuccessMeansArtifact ==
    call.fn = "compile"
        => (ret.success
              <=> /\ is_compiled(call.language)
                  /\ call.docker.create
                  /\ call.docker.start
                  /\ call.docker.upload
                  /\ call.docker.exec.ok
                  /\ call.docker.exec.exit_code = 0
                  /\ call.docker.download)

====
